---- MODULE Spec2Model ----
(***************************************************************************)
(* Trip advisory engine of app.py: geocoding of the two place names, the   *)
(* road route, the public-mode availability rules, the delay predictor,    *)
(* the row assembly and the Walk/Cab suggestions, for the three endpoints  *)
(* predict, cab_predict and walk_predict.                                  *)
(*                                                                         *)
(* Numbers.  Python floats are modelled as fixed-point integers:           *)
(*   - distances in hundredths of a km            (road_km 12.34 -> 1234)  *)
(*   - times and delays in hundredths of a minute                          *)
(*   - raw predictor outputs in thousandths of a minute, so that           *)
(*     round(x, 2) is a real rounding step                                 *)
(*   - traffic indices in tenths, rain in whole mm                         *)
(*   - coordinates in 1e-4 degrees                                         *)
(* Products that leave the grid are rounded half-up to it.                 *)
(* An optional value (Python None) is the empty tuple, a present value v   *)
(* is the one-element tuple <<v>>.                                         *)
(***************************************************************************)
EXTENDS Integers, Sequences, FiniteSets, TLC

VARIABLES
    model,       \* module global `model`: the unpickled artifact, or None
    TOMTOM_KEY,  \* module global TOMTOM_KEY: TRUE iff the env var is non-empty
    searches,    \* rows of the `searches` table, in insertion order
    req,         \* per request: the handler's locals and its position
    fcall        \* a single call of a pure function: its arguments and result

vars == <<model, TOMTOM_KEY, searches, req, fcall>>

None == <<>>
Some(v) == <<v>>

Abs(x) == IF x < 0 THEN -x ELSE x
Max(a, b) == IF a >= b THEN a ELSE b
Min(a, b) == IF a <= b THEN a ELSE b

\* x / d rounded half-up to an integer (d > 0); floats leave the fixed-point
\* grid after a multiplication or division, this puts them back.
RoundDiv(x, d) == IF x >= 0 THEN (2 * x + d) \div (2 * d)
                  ELSE -((2 * (-x) + d) \div (2 * d))

RECURSIVE ISqrtIter(_, _, _)
ISqrtIter(n, lo, hi) ==
    IF lo >= hi THEN lo
    ELSE LET mid == (lo + hi + 1) \div 2
         IN  IF mid * mid <= n THEN ISqrtIter(n, mid, hi)
             ELSE ISqrtIter(n, lo, mid - 1)

\* floor(sqrt(n)) for 0 <= n < 2^31
ISqrt(n) == ISqrtIter(n, 0, 46340)

(***************************************************************************)
(* Geometry                                                                *)
(***************************************************************************)
LL(lat, lon) == [lat |-> lat, lon |-> lon]

\* geopy's geodesic(p, q).km, as a planar distance at the latitude of the
\* covered region (111 km per degree of latitude, 108 km per degree of
\* longitude), computed on a 0.1 km grid and returned in hundredths of a km.
geodesic(p, q) ==
    LET dy == (Abs(p.lat - q.lat) * 111) \div 1000
        dx == (Abs(p.lon - q.lon) * 108) \div 1000
    IN  ISqrt(dx * dx + dy * dy) * 10

BLR_METRO_STATIONS ==
    << LL(129789, 775715),   \* Majestic
       LL(130186, 775560),   \* Yeshwanthpur
       LL(129784, 776408),   \* MG Road
       LL(129780, 776512),   \* Indiranagar
       LL(129951, 776974),   \* Baiyappanahalli
       LL(130097, 776956),   \* KR Puram
       LL(129184, 775735),   \* Banashankari
       LL(130509, 775304) >> \* Jalahalli

RECURSIVE MinDistIter(_, _, _, _)
MinDistIter(pt, stations, i, best) ==
    IF i > Len(stations) THEN best
    ELSE LET d == geodesic(pt, stations[i])
         IN  MinDistIter(pt, stations, i + 1, IF d < best THEN d ELSE best)

\* best starts at 1e9 km in the code; any value above every distance serves
_min_dist_km(pt, stations) == MinDistIter(pt, stations, 1, 1000000000)

in_karnataka(pt) ==
    /\ 115000 <= pt.lat /\ pt.lat <= 185000
    /\ 740000 <= pt.lon /\ pt.lon <= 787000

(***************************************************************************)
(* Mode availability                                                       *)
(***************************************************************************)
RECURSIVE UniqueIter(_, _, _)
UniqueIter(avail, i, out) ==
    IF i > Len(avail) THEN out
    ELSE UniqueIter(avail, i + 1,
                    IF \E j \in 1..Len(out) : out[j] = avail[i]
                    THEN out ELSE Append(out, avail[i]))

\* the trailing "unique" loop of available_public_modes
Unique(avail) == UniqueIter(avail, 1, <<>>)

\* faulty variant: Bus offered without looking at has_route
BusRule_IgnoresRoute(km, has_route, src_ll, dst_ll) ==
    in_karnataka(src_ll) /\ in_karnataka(dst_ll) /\ 100 <= km /\ km <= 80000

\* the Bus rule (line 241)
BusRule(km, has_route, src_ll, dst_ll) ==
    has_route /\ in_karnataka(src_ll) /\ in_karnataka(dst_ll)
              /\ 100 <= km /\ km <= 80000

\* faulty variant: a station exactly 3.5 km away does not count as near
MetroRule_StrictRadius(km, src_ll, dst_ll) ==
    /\ _min_dist_km(src_ll, BLR_METRO_STATIONS) < 350
    /\ _min_dist_km(dst_ll, BLR_METRO_STATIONS) < 350
    /\ km <= 4000

\* the Metro rule (lines 245-247)
MetroRule(km, src_ll, dst_ll) ==
    /\ _min_dist_km(src_ll, BLR_METRO_STATIONS) <= 350
    /\ _min_dist_km(dst_ll, BLR_METRO_STATIONS) <= 350
    /\ km <= 4000

\* faulty variant: a trip of exactly 120 km gets no Train
TrainRule_StrictMinimum(km, src_ll, dst_ll) ==
    km > 12000 /\ in_karnataka(src_ll) /\ in_karnataka(dst_ll)

\* the Train rule (line 251)
TrainRule(km, src_ll, dst_ll) ==
    km >= 12000 /\ in_karnataka(src_ll) /\ in_karnataka(dst_ll)

available_public_modes(road_km, has_route, src_ll, dst_ll) ==
    IF road_km = None THEN <<>>
    ELSE LET km == road_km[1]
             bus   == IF BusRule(km, has_route, src_ll, dst_ll)
                      THEN <<"Bus">> ELSE <<>>
             metro == IF MetroRule(km, src_ll, dst_ll)
                      THEN <<"Metro">> ELSE <<>>
             train == IF TrainRule(km, src_ll, dst_ll)
                      THEN <<"Train">> ELSE <<>>
         IN  Unique(bus \o metro \o train)

Has(seq, x) == \E i \in 1..Len(seq) : seq[i] = x

(***************************************************************************)
(* Weather / traffic / delay                                               *)
(***************************************************************************)
\* a normal return of value v, and a raised exception
Ret(v) == [exc |-> FALSE, val |-> v]
Raise == [exc |-> TRUE, val |-> 0]

\* get_live_weather: the stub's constant answer (temperature and humidity in
\* whole units, rain in whole mm)
get_live_weather(ll) ==
    [temperature_c |-> 24, humidity_pct |-> 70, rain_mm |-> 0]

\* base_traffic_index: `when` is datetime.now() as minutes since midnight,
\* .hour its whole hour.  Result in tenths (40.0 -> 400, 28.0 -> 280).
base_traffic_index(ll, when) ==
    LET hour == when \div 60
    IN  IF (8 <= hour /\ hour <= 11) \/ (17 <= hour /\ hour <= 20)
        THEN 400 ELSE 280

\* traffic_for_mode: round(base_idx * 0.2, 1) for Metro and Train
traffic_for_mode(base_idx, mode) ==
    IF mode = "Bus" THEN base_idx
    ELSE IF mode \in {"Metro", "Train"} THEN RoundDiv(base_idx * 2, 10)
    ELSE base_idx

\* features.get(key, default): a feature vector is a record whose fields are
\* optional values, None standing for a key the dict does not hold
FeatGet(features, key, default) ==
    IF features[key] = None THEN default ELSE features[key][1]

\* faulty variant: Cab is missing from the dict and gets a lighter factor
\* than Bus
mode_factor_CabLight(mode) ==
    CASE mode = "Bus"   -> 60
      [] mode = "Metro" -> 30
      [] mode = "Train" -> 35
      [] mode = "Cab"   -> 10
      [] mode = "Walk"  -> 10
      [] OTHER          -> 50

\* the mode_factor dict with its .get(mode, 5.0) default, in tenths
mode_factor(mode) ==
    CASE mode = "Bus"   -> 60
      [] mode = "Metro" -> 30
      [] mode = "Train" -> 35
      [] mode = "Cab"   -> 60
      [] mode = "Walk"  -> 10
      [] OTHER          -> 50

\* the mode-code dict with its .get(mode, 0) default
mode_code(mode) ==
    CASE mode = "Bus"   -> 1
      [] mode = "Metro" -> 2
      [] mode = "Train" -> 3
      [] mode = "Cab"   -> 4
      [] mode = "Walk"  -> 5
      [] OTHER          -> 0

\* dist * (traffic / 30.0) * (1.0 + min(rain, 20.0) / 50.0) * mode_factor
\* in thousandths of a minute, for dist in hundredths of a km, traffic and
\* factor in tenths and rain in mm:  dist*traffic*(factor/5)*(50+rain') / 3000,
\* rounded half-up.  The division is staged (by 60, then by 50, carrying both
\* remainders) so that no intermediate product leaves 32 bits; the value is
\* the exact rounded quotient.
heuristic_delay(dist, traffic, rain, factor) ==
    LET n  == dist * traffic * (factor \div 5)
        k  == 50 + Min(rain, 20)
        q  == n \div 60
        r  == n % 60
        q2 == (q * k) \div 50
        r2 == (q * k) % 50
    IN  q2 + RoundDiv(60 * r2 + r * k, 3000)

\* model.predict(X)[0] of a loaded artifact m: it raises for the mode codes
\* in m.raises and otherwise returns m.bias + m.slope * distance (thousandths
\* of a minute; a negative bias gives negative predictions)
ModelPredict(m, X) ==
    IF X[6] \in m.raises THEN Raise
    ELSE Ret(m.bias + m.slope * X[1])

\* faulty variant: the artifact's prediction is returned without max(., 0)
predict_delay_minutes_Unclamped(features) ==
    LET dist    == Max(FeatGet(features, "distance_km", 0), 0)
        traffic == Max(FeatGet(features, "traffic_index", 0), 0)
        rain    == Max(FeatGet(features, "rain_mm", 0), 0)
        mode    == FeatGet(features, "mode", "Bus")
        delay   == heuristic_delay(dist, traffic, rain, mode_factor(mode))
        X       == << dist, traffic, rain,
                      FeatGet(features, "humidity_pct", 0),
                      FeatGet(features, "temperature_c", 0),
                      mode_code(mode) >>
        pred    == ModelPredict(model[1], X)
    IN  IF model # None /\ ~pred.exc
        THEN Ret(pred.val)
        ELSE Ret(Max(delay, 0))

\* faulty variant: a fault of the artifact yields a delay of 0 instead of
\* the heuristic value
predict_delay_minutes_ZeroOnFault(features) ==
    LET dist    == Max(FeatGet(features, "distance_km", 0), 0)
        traffic == Max(FeatGet(features, "traffic_index", 0), 0)
        rain    == Max(FeatGet(features, "rain_mm", 0), 0)
        mode    == FeatGet(features, "mode", "Bus")
        delay   == heuristic_delay(dist, traffic, rain, mode_factor(mode))
        X       == << dist, traffic, rain,
                      FeatGet(features, "humidity_pct", 0),
                      FeatGet(features, "temperature_c", 0),
                      mode_code(mode) >>
        pred    == ModelPredict(model[1], X)
    IN  IF model = None THEN Ret(Max(delay, 0))
        ELSE IF pred.exc THEN Ret(0)
        ELSE Ret(Max(pred.val, 0))

\* predict_delay_minutes, reading the module global `model`.  The result is
\* the float the function returns, in thousandths of a minute.
predict_delay_minutes(features) ==
    LET dist    == Max(FeatGet(features, "distance_km", 0), 0)
        traffic == Max(FeatGet(features, "traffic_index", 0), 0)
        rain    == Max(FeatGet(features, "rain_mm", 0), 0)
        mode    == FeatGet(features, "mode", "Bus")
        delay   == heuristic_delay(dist, traffic, rain, mode_factor(mode))
        X       == << dist, traffic, rain,
                      FeatGet(features, "humidity_pct", 0),
                      FeatGet(features, "temperature_c", 0),
                      mode_code(mode) >>
        pred    == ModelPredict(model[1], X)
    IN  IF model # None /\ ~pred.exc
        THEN Ret(Max(pred.val, 0))
        ELSE Ret(Max(delay, 0))

\* round(x, 2) of a value in thousandths: hundredths
Round2(x) == RoundDiv(x, 10)

(***************************************************************************)
(* Text.  A string is a sequence of tokens: a word, a blank " ", or one of *)
(* the ", <name>" suffixes the geocoder appends.                           *)
(***************************************************************************)
\* str.lower() on one token
LowerTok(t) ==
    CASE t = "Majestic"     -> "majestic"
      [] t = "MAJESTIC"     -> "majestic"
      [] t = "MG Road"      -> "mg road"
      [] t = "City Market"  -> "city market"
      [] t = "Koppal"       -> "koppal"
      [] t = "KOPPAL"       -> "koppal"
      [] t = "Mysuru"       -> "mysuru"
      [] t = "Gandhi Nagar" -> "gandhi nagar"
      [] t = "Chennai"      -> "chennai"
      [] t = "Delhi"        -> "delhi"
      [] t = "Atlantis"     -> "atlantis"
      [] t = ", Bengaluru"  -> ", bengaluru"
      [] t = ", Karnataka"  -> ", karnataka"
      [] t = ", India"      -> ", india"
      [] OTHER              -> t

lower(text) == [i \in 1..Len(text) |-> LowerTok(text[i])]

RECURSIVE lstrip(_)
lstrip(text) ==
    IF text # <<>> /\ Head(text) = " " THEN lstrip(Tail(text)) ELSE text

RECURSIVE rstrip(_)
rstrip(text) ==
    IF text # <<>> /\ text[Len(text)] = " "
    THEN rstrip(SubSeq(text, 1, Len(text) - 1)) ELSE text

\* str.strip()
strip(text) == rstrip(lstrip(text))

(***************************************************************************)
(* Geocoding                                                               *)
(***************************************************************************)
\* What the geocoding provider knows, in the "up" world: the query string
\* (case-insensitive) that finds a place, and the place.  "gandhi nagar"
\* names one place in Bengaluru and another in Koppal.  The provider's
\* coordinate of Koppal is its own, not the one of FALLBACK_PLACES.
Gazetteer ==
    { [q |-> <<"majestic", ", bengaluru", ", karnataka", ", india">>,
       ll |-> LL(129789, 775715)],
      [q |-> <<"mg road", ", bengaluru", ", karnataka", ", india">>,
       ll |-> LL(129784, 776408)],
      [q |-> <<"city market", ", bengaluru", ", karnataka", ", india">>,
       ll |-> LL(129700, 775760)],
      [q |-> <<"gandhi nagar", ", bengaluru", ", karnataka", ", india">>,
       ll |-> LL(129770, 775790)],
      [q |-> <<"gandhi nagar", ", karnataka", ", india">>,
       ll |-> LL(153450, 761600)],
      [q |-> <<"mysuru", ", karnataka", ", india">>,
       ll |-> LL(123135, 766499)],
      [q |-> <<"koppal", ", karnataka", ", india">>,
       ll |-> LL(153459, 761548)],
      [q |-> <<"chennai", ", india">>,
       ll |-> LL(130827, 802707)],
      [q |-> <<"delhi">>,
       ll |-> LL(286100, 772100)] }

\* the provider's answers a request may meet: "down" fails every call (the
\* exception is caught in _osm_try), "up" answers from the gazetteer
OsmWorlds == {"down", "up"}

\* _osm_try: one provider call.  With prox the search is bounded to the box
\* of 0.25 degrees around it.  The display name of the result is left out.
_osm_try(query, prox, world) ==
    LET hits == { e \in Gazetteer :
                    /\ e.q = lower(query)
                    /\ \/ prox = None
                       \/ /\ Abs(e.ll.lat - prox[1].lat) <= 2500
                          /\ Abs(e.ll.lon - prox[1].lon) <= 2500 }
    IN  IF world = "down" \/ hits = {} THEN None
        ELSE Some((CHOOSE e \in hits : TRUE).ll)

\* faulty variant: the raw text is tried first
Attempts_RawFirst(q) ==
    << q,
       q \o <<", Bengaluru", ", Karnataka", ", India">>,
       q \o <<", Karnataka", ", India">>,
       q \o <<", India">> >>

\* the four query strings of _geo_strong_karnataka, most specific first
Attempts(q) ==
    << q \o <<", Bengaluru", ", Karnataka", ", India">>,
       q \o <<", Karnataka", ", India">>,
       q \o <<", India">>,
       q >>

RECURSIVE GeoStrongIter(_, _, _, _, _, _)
GeoStrongIter(attempts, i, seen, asked, prox, world) ==
    IF i > Len(attempts) THEN [res |-> None, asked |-> asked]
    ELSE IF attempts[i] \in seen
         THEN GeoStrongIter(attempts, i + 1, seen, asked, prox, world)
         ELSE LET res == _osm_try(attempts[i], prox, world)
              IN  IF res # None
                  THEN [res |-> res, asked |-> Append(asked, attempts[i])]
                  ELSE GeoStrongIter(attempts, i + 1,
                                     seen \cup {attempts[i]},
                                     Append(asked, attempts[i]), prox, world)

\* _geo_strong_karnataka: the result, and the queries sent to the provider
_geo_strong_karnataka(q, prox, world) ==
    GeoStrongIter(Attempts(q), 1, {}, <<>>, prox, world)

\* FALLBACK_PLACES: key -> coordinate
FALLBACK_PLACES ==
    { [key |-> <<"majestic">>, ll |-> LL(129789, 775715)],
      [key |-> <<"majestic", ", bengaluru">>, ll |-> LL(129789, 775715)],
      [key |-> <<"ksr bengaluru">>, ll |-> LL(129765, 775726)],
      [key |-> <<"koppal">>, ll |-> LL(153500, 761500)] }

\* _geo_with_fallback: [res, asked, table], table telling whether the
\* fallback dictionary was consulted
_geo_with_fallback(text, prox, world) ==
    LET g    == _geo_strong_karnataka(text, prox, world)
        key  == lower(strip(text))
        hits == { e \in FALLBACK_PLACES : e.key = key }
    IN  IF g.res # None
        THEN [res |-> g.res, asked |-> g.asked, table |-> FALSE]
        ELSE [res |-> IF hits = {} THEN None
                      ELSE Some((CHOOSE e \in hits : TRUE).ll),
              asked |-> g.asked, table |-> TRUE]

\* a or b on optional values
OrElse(a, b) == IF a # None THEN a ELSE b

\* geocode_pair: (s_ll, d_ll, err), with the provider queries it caused
geocode_pair(src_text, dst_text, world) ==
    LET s  == _geo_with_fallback(src_text, None, world)
        d  == _geo_with_fallback(dst_text, None, world)
        s2 == _geo_with_fallback(src_text, d.res, world)
        d2 == _geo_with_fallback(dst_text, s.res, world)
        s_ll == OrElse(s2.res, s.res)
        d_ll == OrElse(d2.res, d.res)
    IN  IF s.res = None \/ d.res = None
        THEN [s_ll |-> None, d_ll |-> None, err |-> Some("not_located"),
              asked |-> s.asked \o d.asked]
        ELSE IF geodesic(s.res[1], d.res[1]) > 12000
        THEN IF geodesic(s_ll[1], d_ll[1]) > 80000
             THEN [s_ll |-> None, d_ll |-> None, err |-> Some("too_far"),
                   asked |-> s.asked \o d.asked \o s2.asked \o d2.asked]
             ELSE [s_ll |-> s_ll, d_ll |-> d_ll, err |-> None,
                   asked |-> s.asked \o d.asked \o s2.asked \o d2.asked]
        ELSE [s_ll |-> s.res, d_ll |-> d.res, err |-> None,
              asked |-> s.asked \o d.asked]

(***************************************************************************)
(* Routing                                                                 *)
(***************************************************************************)
\* what the routing provider may answer to one request
RouteResponses ==
    { [kind |-> "network",    length_m |-> 0, duration_s |-> 0],
      [kind |-> "http_error", length_m |-> 0, duration_s |-> 0],
      [kind |-> "empty",      length_m |-> 0, duration_s |-> 0],
      [kind |-> "ok", length_m |-> 0,      duration_s |-> 0],
      [kind |-> "ok", length_m |-> 900,    duration_s |-> 180],
      [kind |-> "ok", length_m |-> 5004,   duration_s |-> 917],
      [kind |-> "ok", length_m |-> 30000,  duration_s |-> 3000],
      [kind |-> "ok", length_m |-> 150000, duration_s |-> 10800],
      [kind |-> "ok", length_m |-> 900000, duration_s |-> 54000] }

\* faulty variant: a network failure or a non-200 answer is not caught
tomtom_route_Propagates(src_ll, dst_ll, resp) ==
    IF ~TOMTOM_KEY
    THEN [exc |-> FALSE, data |-> None, err |-> Some("key_missing")]
    ELSE IF resp.kind \in {"network", "http_error"}
    THEN [exc |-> TRUE, data |-> None, err |-> None]
    ELSE IF resp.kind = "empty"
    THEN [exc |-> FALSE, data |-> None, err |-> Some("no_route")]
    ELSE [exc |-> FALSE,
          data |-> Some([distance_km  |-> RoundDiv(resp.length_m, 10),
                         duration_min |-> RoundDiv(resp.duration_s, 6) * 10,
                         coords       |-> resp.length_m]),
          err |-> None]

\* tomtom_route: (route_data, route_err), or an exception.  resp is the
\* provider's answer to the HTTP call, which is made only with a key.
\* distance_km = round(length_m / 1000, 2), duration_min =
\* round(duration_s / 60, 1); the polyline is named by the response.
tomtom_route(src_ll, dst_ll, resp) ==
    IF ~TOMTOM_KEY
    THEN [exc |-> FALSE, data |-> None, err |-> Some("key_missing")]
    ELSE IF resp.kind \in {"network", "http_error"}
    THEN [exc |-> FALSE, data |-> None, err |-> Some("route_error")]
    ELSE IF resp.kind = "empty"
    THEN [exc |-> FALSE, data |-> None, err |-> Some("no_route")]
    ELSE [exc |-> FALSE,
          data |-> Some([distance_km  |-> RoundDiv(resp.length_m, 10),
                         duration_min |-> RoundDiv(resp.duration_s, 6) * 10,
                         coords       |-> resp.length_m]),
          err |-> None]

(***************************************************************************)
(* Row assembly (predict, cab_predict, walk_predict)                       *)
(***************************************************************************)
\* the feats dict the handlers build
Feats(dist, tr_idx, weather, mode) ==
    [distance_km   |-> Some(dist),
     traffic_index |-> Some(tr_idx),
     rain_mm       |-> Some(weather.rain_mm),
     humidity_pct  |-> Some(weather.humidity_pct),
     temperature_c |-> Some(weather.temperature_c),
     mode          |-> Some(mode)]

\* faulty variant: no floor of one minute
total_time_of_NoFloor(base_time, delay_min) == base_time + delay_min

\* total_time = round(max(base_time + delay_min, 1.0), 2)
total_time_of(base_time, delay_min) == Max(base_time + delay_min, 100)

\* the per-mode effective distance of predict's loop (lines 476-488)
dist_for_mode(mode, road_km, straight_km) ==
    LET base_dist == IF road_km # None THEN road_km[1] ELSE straight_km
    IN  CASE mode = "Bus"   -> road_km[1]
          [] mode = "Metro" -> Max(RoundDiv(base_dist * 85, 100), 200)
          [] OTHER          -> Max(RoundDiv(base_dist * 90, 100), 1000)

\* the per-mode base time of predict's loop, in hundredths of a minute:
\* the router's duration for Bus, distance / 32 km/h or / 40 km/h otherwise
base_time_for_mode(mode, dist, bus_time_min) ==
    CASE mode = "Bus"   -> bus_time_min[1]
      [] mode = "Metro" -> RoundDiv(dist * 15, 8)
      [] OTHER          -> RoundDiv(dist * 3, 2)

\* the "simple fares" of predict, in hundredths
public_fare(mode, dist) ==
    CASE mode = "Bus"   -> 500 + RoundDiv(dist * 5, 2)
      [] mode = "Metro" -> 1000 + 3 * dist
      [] OTHER          -> 800 + 2 * dist

\* one row dict
ModeRow(mode, tr_idx, delay_min, total_time, fare) ==
    [mode            |-> mode,
     traffic_index   |-> tr_idx,
     predicted_delay |-> delay_min,
     total_time_min  |-> total_time,
     fare            |-> fare,
     delay_note      |-> IF mode = "Walk" THEN "walk_varies"
                         ELSE IF delay_min < 300 THEN "no_significant_delay"
                         ELSE "minutes_of_delay"]

\* the body of predict's loop for one mode that is not skipped: the row, or
\* the exception of the predictor
PublicRow(mode, road_km, bus_time_min, straight_km, base_tr, weather) ==
    LET dist      == dist_for_mode(mode, road_km, straight_km)
        base_time == base_time_for_mode(mode, dist, bus_time_min)
        tr_idx    == traffic_for_mode(base_tr, mode)
        p         == predict_delay_minutes(Feats(dist, tr_idx, weather, mode))
        delay_min == Round2(p.val)
    IN  IF p.exc THEN Raise
        ELSE Ret(ModeRow(mode, tr_idx, delay_min,
                         total_time_of(base_time, delay_min),
                         public_fare(mode, dist)))

\* faulty variant: the test of the Bus branch is inverted, Bus is skipped
\* when there is a route
RECURSIVE PublicRowsIter_SkipsRoutedBus(_, _, _, _)
PublicRowsIter_SkipsRoutedBus(modes, i, rows, c) ==
    IF i > Len(modes) THEN Ret(rows)
    ELSE IF modes[i] = "Bus" /\ c.has_route
    THEN PublicRowsIter_SkipsRoutedBus(modes, i + 1, rows, c)
    ELSE LET row == PublicRow(modes[i], c.road_km, c.bus_time_min,
                              c.straight_km, c.base_tr, c.weather)
         IN  IF row.exc THEN Raise
             ELSE PublicRowsIter_SkipsRoutedBus(modes, i + 1,
                                                Append(rows, row.val), c)

\* predict's loop over the available modes; c holds the locals it reads
\* (has_route, road_km, bus_time_min, straight_km, base_tr, weather)
RECURSIVE PublicRowsIter(_, _, _, _)
PublicRowsIter(modes, i, rows, c) ==
    IF i > Len(modes) THEN Ret(rows)
    ELSE IF modes[i] = "Bus" /\ ~c.has_route
    THEN PublicRowsIter(modes, i + 1, rows, c)
    ELSE LET row == PublicRow(modes[i], c.road_km, c.bus_time_min,
                              c.straight_km, c.base_tr, c.weather)
         IN  IF row.exc THEN Raise
             ELSE PublicRowsIter(modes, i + 1, Append(rows, row.val), c)

\* faulty variant: `rows` is a module-level list that is never emptied, so
\* a request appends to the rows of the request recorded last
PublicRows_SharedList(modes, c) ==
    PublicRowsIter(modes, 1,
                   IF searches = <<>> THEN <<>>
                   ELSE searches[Len(searches)].modes_json, c)

\* predict, lines 474-519: the rows of the available modes, in their order
PublicRows(modes, c) == PublicRowsIter(modes, 1, <<>>, c)

\* cab_predict, lines 646-670: the Cab row when the route is known
CabRows(road_km, base_time_min, base_tr, weather) ==
    IF road_km # None /\ base_time_min # None
    THEN LET p == predict_delay_minutes(
                      Feats(road_km[1], base_tr, weather, "Cab"))
             delay_min == Round2(p.val)
         IN  IF p.exc THEN Raise
             ELSE Ret(<< ModeRow("Cab", base_tr, delay_min,
                                 total_time_of(base_time_min[1], delay_min),
                                 4000 + 14 * road_km[1]
                                      + RoundDiv(delay_min, 2)) >>)
    ELSE Ret(<<>>)

\* walk_predict: path_km = min(straight_km * 1.35, 50.0)
walk_path_km(straight_km) == Min(RoundDiv(straight_km * 135, 100), 5000)

\* path_km / 4.5 km/h * 60, in hundredths of a minute
walk_time(path_km) == RoundDiv(path_km * 40, 3)

\* round(predict_delay_minutes(feats) * 0.2, 2) of a raw prediction
walk_delay_of(p) == RoundDiv(p, 50)

\* walk_predict, lines 728-753: the single Walk row
WalkRows(straight_km, base_tr, weather) ==
    LET path_km   == walk_path_km(straight_km)
        tr_idx    == RoundDiv(base_tr, 10)
        p         == predict_delay_minutes(
                         Feats(path_km, tr_idx, weather, "Walk"))
        delay_min == walk_delay_of(p.val)
    IN  IF p.exc THEN Raise
        ELSE Ret(<< ModeRow("Walk", tr_idx, delay_min,
                            total_time_of(walk_time(path_km), delay_min),
                            0) >>)

(***************************************************************************)
(* Smart suggestions of predict (lines 533-583)                            *)
(***************************************************************************)
RECURSIVE MinTimeIter(_, _, _)
MinTimeIter(rows, i, best) ==
    IF i > Len(rows) THEN best
    ELSE MinTimeIter(rows, i + 1,
                     IF best = None \/ rows[i].total_time_min < best[1]
                     THEN Some(rows[i].total_time_min) ELSE best)

\* min([r["total_time_min"] for r in rows], default=float("inf")); None is
\* the infinite default
min_public_time(rows) == MinTimeIter(rows, 1, None)

\* path_km <= 2.5 or walk_time_min <= min_public_time * 0.8, where anything
\* is <= inf
WalkOffered(path_km, walk_time_min, min_time) ==
    \/ path_km <= 250
    \/ min_time = None
    \/ (min_time # None /\ walk_time_min * 10 <= min_time[1] * 8)

\* the Walk card: its predictor call may raise
WalkSuggestion(straight_km, base_tr, weather) ==
    LET path_km == RoundDiv(straight_km * 135, 100)
        p == predict_delay_minutes(
                 Feats(path_km, RoundDiv(base_tr, 10), weather, "Walk"))
        walk_total == total_time_of(walk_time(path_km), walk_delay_of(p.val))
    IN  IF p.exc THEN Raise
        ELSE Ret([type |-> "Walk", km |-> path_km,
                  minutes |-> RoundDiv(walk_total, 100), fare |-> 0])

\* faulty variant: the "or not rows" fallback is missing
CabOffered_OnlyWhenFaster(road_km, cab_total, rows) ==
    /\ road_km <= 2000
    /\ rows # <<>>
    /\ cab_total * 100 < min_public_time(rows)[1] * 85

\* faulty variant: the road distance is not looked at
CabOffered_AnyDistance(road_km, cab_total, rows) ==
    LET min_time == min_public_time(rows)
    IN  (min_time # None /\ cab_total * 100 < min_time[1] * 85)
        \/ rows = <<>>

\* (near_distance and faster_than_public) or not rows
CabOffered(road_km, cab_total, rows) ==
    LET min_time == min_public_time(rows)
        faster_than_public ==
            IF min_time # None THEN cab_total * 100 < min_time[1] * 85
            ELSE cab_total < cab_total
        near_distance == road_km <= 2000
    IN  (near_distance /\ faster_than_public) \/ rows = <<>>

\* the Cab estimate of a known road route (lines 562-573): cab_total and
\* cab_fare, or the exception of the predictor
CabEstimate(road_km, bus_time_min, base_tr, weather) ==
    LET cab_time_min == IF bus_time_min # None THEN bus_time_min[1]
                        ELSE RoundDiv(road_km * 15, 7)
        p == predict_delay_minutes(Feats(road_km, base_tr, weather, "Cab"))
        cab_delay == Round2(p.val)
    IN  [exc       |-> p.exc,
         cab_total |-> total_time_of(cab_time_min, cab_delay),
         cab_fare  |-> 4000 + 14 * road_km + RoundDiv(cab_delay, 2)]

\* the suggestions list of predict, with the number of predictor calls made
\* for it; exc when one of those calls raised
Suggestions(rows, road_km, bus_time_min, straight_km, base_tr, weather) ==
    LET path_km == RoundDiv(straight_km * 135, 100)
        offer_walk == WalkOffered(path_km, walk_time(path_km),
                                  min_public_time(rows))
        walk == WalkSuggestion(straight_km, base_tr, weather)
        cab  == CabEstimate(road_km[1], bus_time_min, base_tr, weather)
        offer_cab == /\ road_km # None
                     /\ ~cab.exc
                     /\ CabOffered(road_km[1], cab.cab_total, rows)
    IN  [exc  |-> (offer_walk /\ walk.exc) \/ (road_km # None /\ cab.exc),
         list |-> (IF offer_walk /\ ~walk.exc THEN <<walk.val>> ELSE <<>>)
                  \o (IF offer_cab
                      THEN << [type |-> "Cab", km |-> road_km[1],
                               minutes |-> RoundDiv(cab.cab_total, 100),
                               fare |-> cab.cab_fare] >>
                      ELSE <<>>),
         predictor_calls |-> (IF offer_walk THEN 1 ELSE 0)
                             + (IF road_km # None THEN 1 ELSE 0)]

(***************************************************************************)
(* Trained artifacts the start-up code may have loaded (lines 72-81)       *)
(***************************************************************************)
\* an artifact that always predicts -5 minutes
ArtNegative == [raises |-> {}, bias |-> -5000, slope |-> 0]
\* an artifact that predicts 1.234 min + 0.3 min per km
ArtLinear == [raises |-> {}, bias |-> 1234, slope |-> 3]
\* the same, but its predict raises for Metro rows (mode code 2)
ArtMetroFault == [raises |-> {2}, bias |-> 1234, slope |-> 3]
\* an artifact whose predict always raises (e.g. wrong feature count)
ArtBroken == [raises |-> 0..5, bias |-> 0, slope |-> 0]

Artifacts == {ArtNegative, ArtLinear, ArtMetroFault, ArtBroken}

\* `model` after import: None (no file, or the load failed) or an artifact
ModelChoices == {None} \cup {Some(m) : m \in Artifacts}

(***************************************************************************)
(* Places used as inputs                                                   *)
(***************************************************************************)
Majestic   == LL(129789, 775715)
MGRoad     == LL(129784, 776408)
\* 3.5 km and 3.6 km west of Majestic, away from every other station
NearMetro  == LL(129789, 775390)
OffMetro   == LL(129789, 775381)
CityMarket == LL(129700, 775760)   \* 1 km south of Majestic
Mysuru     == LL(123135, 766499)
Koppal     == LL(153500, 761500)
BoxCorner  == LL(115000, 740000)   \* on the edge of the bounding box
BelowBox   == LL(114999, 760000)   \* just south of the box
Chennai    == LL(130827, 802707)   \* east of the box
Delhi      == LL(286100, 772100)

(***************************************************************************)
(* Pure functions called on their own                                      *)
(***************************************************************************)
ModePoints == {Majestic, MGRoad, NearMetro, OffMetro, Koppal, BoxCorner,
               BelowBox, Chennai}

\* road distances around every threshold of the rules (1, 40, 120, 800 km)
ModeRoadKms == {None} \cup
    {Some(k) : k \in {0, 99, 100, 101, 3999, 4000, 4001, 11999, 12000,
                      12001, 79999, 80000, 80001}}

ModesArgs == [road_km : ModeRoadKms, has_route : BOOLEAN,
              src_ll : ModePoints, dst_ll : ModePoints]

FeatureVectors ==
    [distance_km   : {None, Some(-500), Some(0), Some(1234), Some(80000)},
     traffic_index : {None, Some(-10), Some(56), Some(400)},
     rain_mm       : {None, Some(-3), Some(5), Some(20), Some(35)},
     humidity_pct  : {Some(70)},
     temperature_c : {None, Some(24)},
     mode          : {None, Some("Bus"), Some("Metro"), Some("Train"),
                      Some("Cab"), Some("Walk"), Some("Tram")}]

(***************************************************************************)
(* Requests                                                                *)
(***************************************************************************)
\* the requests the server may be handling at once
NumReqs == 3

Reqs == 1..NumReqs

\* the locals of a handler before it runs
IdleReq ==
    [pc            |-> "idle",
     feature       |-> "",       \* "public", "cab", "walk": the endpoint
     source        |-> <<>>,
     destination   |-> <<>>,
     osm           |-> "",       \* the geocoding provider's world it met
     asked         |-> <<>>,     \* the queries it sent to that provider
     src_ll        |-> None,
     dst_ll        |-> None,
     geo_err       |-> None,
     route_resp    |-> None,     \* the routing provider's answer it met
     route_err     |-> None,
     has_route     |-> FALSE,
     road_km       |-> None,
     base_time_min |-> None,     \* bus_time_min in predict
     road_poly     |-> None,
     straight_km   |-> 0,
     now           |-> None,     \* datetime.now() read by base_traffic_index
     base_tr       |-> 0,
     modes         |-> <<>>,
     rows          |-> <<>>,
     saved_km      |-> 0,        \* the road_km column it will insert
     calls         |-> [route |-> 0, predictor |-> 0],
     resp          |-> None]     \* what the handler returned

NoCall == [fn |-> "", args |-> None, ret |-> None]

\* the value a handler returns: an error page, or result.html's arguments
Response(kind, error, rows, suggestions, distance_km, no_modes_msg) ==
    [kind |-> kind, error |-> error, rows |-> rows,
     suggestions |-> suggestions, distance_km |-> distance_km,
     no_modes_msg |-> no_modes_msg]

\* an uncaught exception leaves the handler (Flask answers 500)
Crashed(q) ==
    [q EXCEPT !.pc = "done",
              !.resp = Some(Response("exception", None, <<>>, <<>>, 0, None))]

\* one row of the searches table (the timestamp column is left out)
SearchRow(r, q, road_km, rows) ==
    [req |-> r, source |-> q.source, destination |-> q.destination,
     road_km |-> road_km, modes_json |-> rows, feature |-> q.feature]

\* lines 433-436 (614-617, 709-712): read and strip the form, refuse an
\* empty place
Submit(r, feature, src_raw, dst_raw) ==
    /\ req[r].pc = "idle"
    /\ LET source == strip(src_raw)
           destination == strip(dst_raw)
           q == [req[r] EXCEPT !.feature = feature, !.source = source,
                               !.destination = destination]
       IN  req' = [req EXCEPT ![r] =
                IF source = <<>> \/ destination = <<>>
                THEN [q EXCEPT !.pc = "done",
                               !.resp = Some(Response("missing_input",
                                   None, <<>>, <<>>, 0, None))]
                ELSE [q EXCEPT !.pc = "geocode"]]
    /\ UNCHANGED <<model, TOMTOM_KEY, searches, fcall>>

\* line 438 (619, 714): geocode_pair against the provider
Geocode(r, world) ==
    /\ req[r].pc = "geocode"
    /\ LET g == geocode_pair(req[r].source, req[r].destination, world)
       IN  req' = [req EXCEPT ![r] =
                [@ EXCEPT !.osm = world, !.asked = g.asked,
                          !.src_ll = g.s_ll, !.dst_ll = g.d_ll,
                          !.geo_err = g.err,
                          !.pc = IF g.err # None THEN "geo_failed"
                                 ELSE IF req[r].feature = "walk"
                                      THEN "assemble"
                                 ELSE "route"]]
    /\ UNCHANGED <<model, TOMTOM_KEY, searches, fcall>>

\* lines 441-450, 523-531 (and their twins in cab_predict and walk_predict):
\* the INSERT inside try/except.  When sqlite raises (database locked past
\* its timeout, file not writable, disk full) the except branch prints and
\* the table is left as it was; `stored` is the outcome of the INSERT.
history_insert(table, row, stored) ==
    IF stored THEN Append(table, row) ELSE table

\* faulty variant: the attempt is recorded but the handler does not return
GeoFailed_FallsThrough(r, stored) ==
    /\ req[r].pc = "geo_failed"
    /\ searches' = history_insert(searches, SearchRow(r, req[r], 0, <<>>),
                                  stored)
    /\ req' = [req EXCEPT ![r].pc = "route"]
    /\ UNCHANGED <<model, TOMTOM_KEY, fcall>>

\* lines 439-451 (620-631, 715-726): record the attempt and return the
\* geocoding error
GeoFailed(r, stored) ==
    /\ req[r].pc = "geo_failed"
    /\ searches' = history_insert(searches, SearchRow(r, req[r], 0, <<>>),
                                  stored)
    /\ req' = [req EXCEPT ![r] =
            [@ EXCEPT !.pc = "done",
                      !.resp = Some(Response("geo_error", req[r].geo_err,
                                             <<>>, <<>>, 0, None))]]
    /\ UNCHANGED <<model, TOMTOM_KEY, fcall>>

\* lines 454-459 (633-638): tomtom_route and the locals taken from it
Route(r, resp) ==
    /\ req[r].pc = "route"
    /\ LET q == req[r]
           t == tomtom_route(q.src_ll[1], q.dst_ll[1], resp)
           ok == t.err = None /\ t.data # None
           q2 == [q EXCEPT
                    !.calls.route = @ + 1,
                    !.route_resp = IF TOMTOM_KEY THEN Some(resp) ELSE None]
       IN  req' = [req EXCEPT ![r] =
                IF t.exc THEN Crashed(q2)
                ELSE [q2 EXCEPT
                        !.route_err = t.err,
                        !.has_route = t.data # None,
                        !.road_km = IF ok THEN Some(t.data[1].distance_km)
                                    ELSE None,
                        !.road_poly = IF ok THEN Some(t.data[1].coords)
                                      ELSE None,
                        !.base_time_min =
                            IF ok THEN Some(t.data[1].duration_min)
                            ELSE None,
                        !.pc = "assemble"]]
    /\ UNCHANGED <<model, TOMTOM_KEY, searches, fcall>>

\* lines 461-519 (640-670, 728-753): distances, live context, available
\* modes and the rows, at local time `now`
Assemble(r, now) ==
    /\ req[r].pc = "assemble"
    /\ LET q == req[r]
           straight_km == geodesic(q.src_ll[1], q.dst_ll[1])
           weather == get_live_weather(q.src_ll[1])
           base_tr == base_traffic_index(q.src_ll[1], now)
           modes == IF q.feature = "public"
                    THEN available_public_modes(q.road_km, q.has_route,
                                                q.src_ll[1], q.dst_ll[1])
                    ELSE <<>>
           rows == CASE q.feature = "public" ->
                          PublicRows(modes,
                              [has_route    |-> q.has_route,
                               road_km      |-> q.road_km,
                               bus_time_min |-> q.base_time_min,
                               straight_km  |-> straight_km,
                               base_tr      |-> base_tr,
                               weather      |-> weather])
                     [] q.feature = "cab" ->
                          CabRows(q.road_km, q.base_time_min, base_tr,
                                  weather)
                     [] OTHER -> WalkRows(straight_km, base_tr, weather)
           q2 == [q EXCEPT !.straight_km = straight_km, !.now = Some(now),
                           !.base_tr = base_tr, !.modes = modes]
       IN  req' = [req EXCEPT ![r] =
                IF rows.exc THEN Crashed(q2)
                ELSE [q2 EXCEPT
                        !.rows = rows.val,
                        !.calls.predictor = @ + Len(rows.val),
                        !.saved_km =
                            IF q.feature = "walk"
                            THEN walk_path_km(straight_km)
                            ELSE IF q.road_km # None THEN q.road_km[1]
                            ELSE 0,
                        !.pc = "save"]]
    /\ UNCHANGED <<model, TOMTOM_KEY, searches, fcall>>

\* lines 521-531 (672-681, 755-764): insert the attempt into searches
Save(r, stored) ==
    /\ req[r].pc = "save"
    /\ searches' = history_insert(searches,
                        SearchRow(r, req[r], req[r].saved_km, req[r].rows),
                        stored)
    /\ req' = [req EXCEPT ![r].pc = "respond"]
    /\ UNCHANGED <<model, TOMTOM_KEY, fcall>>

\* lines 533-605 (683-698, 766-780): suggestions, no_modes_msg, render
Respond(r) ==
    /\ req[r].pc = "respond"
    /\ LET q == req[r]
           weather == get_live_weather(q.src_ll[1])
           sg == IF q.feature = "public"
                 THEN Suggestions(q.rows, q.road_km, q.base_time_min,
                                  q.straight_km, q.base_tr, weather)
                 ELSE [exc |-> FALSE, list |-> <<>>, predictor_calls |-> 0]
           display_km ==
               IF q.feature = "walk" THEN walk_path_km(q.straight_km)
               ELSE IF q.road_km # None THEN q.road_km[1]
               ELSE q.straight_km
           no_modes_msg ==
               IF q.rows # <<>> \/ q.feature = "walk" THEN None
               ELSE IF q.feature = "public" THEN Some("no_direct_pt")
               ELSE Some("no_road_route_for_cab")
       IN  req' = [req EXCEPT ![r] =
                IF sg.exc THEN Crashed(q)
                ELSE [q EXCEPT
                        !.calls.predictor = @ + sg.predictor_calls,
                        !.pc = "done",
                        !.resp = Some(Response("advice", None, q.rows,
                                               sg.list, display_km,
                                               no_modes_msg))]]
    /\ UNCHANGED <<model, TOMTOM_KEY, searches, fcall>>

(***************************************************************************)
(* Specification of one request against every input                        *)
(***************************************************************************)
Features == {"public", "cab", "walk"}

\* raw form values
SrcTexts == { <<>>, <<" ", "Majestic">>, <<"City Market">>,
              <<"Gandhi Nagar">>, <<"Mysuru">>, <<"Atlantis">> }
DstTexts == { <<" ">>, <<"MG Road", " ">>, <<"Majestic">>, <<"KOPPAL">>,
              <<"Chennai">>, <<"Delhi">> }

\* 09:30 (peak) and 14:00
Times == {570, 840}

Init ==
    /\ model \in ModelChoices
    /\ TOMTOM_KEY \in BOOLEAN
    /\ searches = <<>>
    /\ req = [r \in Reqs |-> IdleReq]
    /\ fcall = NoCall

Next ==
    \E r \in {1} :
        \/ \E f \in Features, s \in SrcTexts, d \in DstTexts :
               Submit(r, f, s, d)
        \/ \E w \in OsmWorlds : Geocode(r, w)
        \/ \E stored \in BOOLEAN : GeoFailed(r, stored)
        \/ \E resp \in RouteResponses : Route(r, resp)
        \/ \E now \in Times : Assemble(r, now)
        \/ \E stored \in BOOLEAN : Save(r, stored)
        \/ Respond(r)

Spec == Init /\ [][Next]_vars

(***************************************************************************)
(* Specification of concurrent requests (the server runs each request on   *)
(* its own thread), over a few inputs; the history inserts succeed        *)
(***************************************************************************)
PairRoutes ==
    { [kind |-> "network", length_m |-> 0,    duration_s |-> 0],
      [kind |-> "ok",      length_m |-> 5004, duration_s |-> 917] }

InitPair ==
    /\ model = Some(ArtMetroFault)
    /\ TOMTOM_KEY = TRUE
    /\ searches = <<>>
    /\ req = [r \in Reqs |-> IdleReq]
    /\ fcall = NoCall

NextPair ==
    \E r \in Reqs :
        \/ \E d \in {<<"Majestic">>, <<"Delhi">>} :
               Submit(r, "public", <<"City Market">>, d)
        \/ Geocode(r, "up")
        \/ GeoFailed(r, TRUE)
        \/ \E resp \in PairRoutes : Route(r, resp)
        \/ Assemble(r, 570)
        \/ Save(r, TRUE)
        \/ Respond(r)

SpecPair == InitPair /\ [][NextPair]_vars

(***************************************************************************)
(* Specifications of the pure functions on their own                       *)
(***************************************************************************)
\* available_public_modes applied to the drawn arguments
CallModes ==
    /\ fcall.fn = "available_public_modes"
    /\ fcall.ret = None
    /\ fcall' = [fcall EXCEPT !.ret =
            Some(available_public_modes(fcall.args.road_km,
                                        fcall.args.has_route,
                                        fcall.args.src_ll,
                                        fcall.args.dst_ll))]
    /\ UNCHANGED <<model, TOMTOM_KEY, searches, req>>

InitModes ==
    /\ model = None
    /\ TOMTOM_KEY = TRUE
    /\ searches = <<>>
    /\ req = [r \in Reqs |-> IdleReq]
    /\ fcall \in [fn : {"available_public_modes"}, args : ModesArgs,
                  ret : {None}]

SpecModes == InitModes /\ [][CallModes]_vars

\* predict_delay_minutes applied to the drawn feature vector, with the
\* artifact the start-up code loaded
CallDelay ==
    /\ fcall.fn = "predict_delay_minutes"
    /\ fcall.ret = None
    /\ fcall' = [fcall EXCEPT !.ret =
            Some(predict_delay_minutes(fcall.args))]
    /\ UNCHANGED <<model, TOMTOM_KEY, searches, req>>

InitDelay ==
    /\ model \in ModelChoices
    /\ TOMTOM_KEY = TRUE
    /\ searches = <<>>
    /\ req = [r \in Reqs |-> IdleReq]
    /\ fcall \in [fn : {"predict_delay_minutes"}, args : FeatureVectors,
                  ret : {None}]

SpecDelay == InitDelay /\ [][CallDelay]_vars

\* texts and proximity points _geo_with_fallback is called with
GeoTexts ==
    { <<"Majestic">>, <<" ", "MAJESTIC", " ">>, <<"MG Road">>,
      <<"City Market">>, <<"Gandhi Nagar">>, <<"Mysuru">>, <<"KOPPAL">>,
      <<"Koppal", " ">>, <<"Chennai">>, <<"Delhi">>, <<"Atlantis">>, <<>> }

GeoProx == {None, Some(Majestic), Some(Mysuru), Some(Koppal), Some(Delhi)}

GeoArgs == [text : GeoTexts, prox : GeoProx, world : OsmWorlds]

\* _geo_with_fallback applied to the drawn text, proximity and provider
CallGeo ==
    /\ fcall.fn = "_geo_with_fallback"
    /\ fcall.ret = None
    /\ fcall' = [fcall EXCEPT !.ret =
            Some(_geo_with_fallback(fcall.args.text, fcall.args.prox,
                                    fcall.args.world))]
    /\ UNCHANGED <<model, TOMTOM_KEY, searches, req>>

InitGeo ==
    /\ model = None
    /\ TOMTOM_KEY = TRUE
    /\ searches = <<>>
    /\ req = [r \in Reqs |-> IdleReq]
    /\ fcall \in [fn : {"_geo_with_fallback"}, args : GeoArgs, ret : {None}]

SpecGeo == InitGeo /\ [][CallGeo]_vars

\* datetime.now() as minutes since midnight: every minute of a day
DayMinutes == 0..1439

\* base_traffic_index applied to the drawn place and time
CallTraffic ==
    /\ fcall.fn = "base_traffic_index"
    /\ fcall.ret = None
    /\ fcall' = [fcall EXCEPT !.ret =
            Some(base_traffic_index(fcall.args.ll, fcall.args.when))]
    /\ UNCHANGED <<model, TOMTOM_KEY, searches, req>>

InitTraffic ==
    /\ model = None
    /\ TOMTOM_KEY = TRUE
    /\ searches = <<>>
    /\ req = [r \in Reqs |-> IdleReq]
    /\ fcall \in [fn : {"base_traffic_index"},
                  args : [ll : {Majestic, Koppal}, when : DayMinutes],
                  ret : {None}]

SpecTraffic == InitTraffic /\ [][CallTraffic]_vars

(***************************************************************************)
(* Claims                                                                  *)
(***************************************************************************)
ModesDone == fcall.fn = "available_public_modes" /\ fcall.ret # None

\* C1: available_public_modes contains Bus if and only if has_route is
\* true, both endpoints lie inside the bounding box and road_km is present
\* with 1 <= road_km <= 800.
C1_BusIff ==
    ModesDone =>
        LET a == fcall.args
        IN  Has(fcall.ret[1], "Bus") <=>
                /\ a.has_route
                /\ a.road_km # None
                /\ 100 <= a.road_km[1] /\ a.road_km[1] <= 80000
                /\ 115000 <= a.src_ll.lat /\ a.src_ll.lat <= 185000
                /\ 740000 <= a.src_ll.lon /\ a.src_ll.lon <= 787000
                /\ 115000 <= a.dst_ll.lat /\ a.dst_ll.lat <= 185000
                /\ 740000 <= a.dst_ll.lon /\ a.dst_ll.lon <= 787000

\* a call with a route of exactly 800 km between two points on or inside
\* the box's edge has returned Bus
C1_Witness ==
    /\ ModesDone
    /\ fcall.args.has_route
    /\ fcall.args.road_km = Some(80000)
    /\ fcall.args.src_ll = BoxCorner
    /\ fcall.args.dst_ll = Koppal
    /\ Has(fcall.ret[1], "Bus")

\* C2: when both endpoints are within 3.5 km of a metro reference station
\* and road_km <= 40, Metro is offered whatever has_route is; when road_km
\* is absent Metro is not offered, however near the stations are.
C2_Metro ==
    ModesDone =>
        LET a == fcall.args
            near(pt) == \E i \in 1..Len(BLR_METRO_STATIONS) :
                            geodesic(pt, BLR_METRO_STATIONS[i]) <= 350
        IN  /\ (a.road_km # None /\ a.road_km[1] <= 4000
                    /\ near(a.src_ll) /\ near(a.dst_ll))
                => Has(fcall.ret[1], "Metro")
            /\ a.road_km = None => ~Has(fcall.ret[1], "Metro")

\* Metro has been returned for a call without a route, from a point exactly
\* 3.5 km from the nearest station, at exactly 40 km
C2_Witness ==
    /\ ModesDone
    /\ ~fcall.args.has_route
    /\ fcall.args.road_km = Some(4000)
    /\ fcall.args.src_ll = NearMetro
    /\ fcall.args.dst_ll = MGRoad
    /\ Has(fcall.ret[1], "Metro")

\* C3: available_public_modes contains Train if and only if road_km is
\* present with road_km >= 120 and both endpoints lie inside the bounding
\* box; the answer is the same for has_route true and false.
C3_TrainIff ==
    ModesDone =>
        LET a == fcall.args
            inside(pt) == /\ 115000 <= pt.lat /\ pt.lat <= 185000
                          /\ 740000 <= pt.lon /\ pt.lon <= 787000
            flipped == available_public_modes(a.road_km, ~a.has_route,
                                              a.src_ll, a.dst_ll)
        IN  /\ Has(fcall.ret[1], "Train") <=>
                   /\ a.road_km # None
                   /\ a.road_km[1] >= 12000
                   /\ inside(a.src_ll) /\ inside(a.dst_ll)
            /\ Has(fcall.ret[1], "Train") <=> Has(flipped, "Train")

\* Train has been returned for a call without a route, at exactly 120 km
C3_Witness ==
    /\ ModesDone
    /\ ~fcall.args.has_route
    /\ fcall.args.road_km = Some(12000)
    /\ fcall.args.src_ll = Majestic
    /\ fcall.args.dst_ll = Koppal
    /\ fcall.ret[1] = <<"Train">>

DelayDone == fcall.fn = "predict_delay_minutes" /\ fcall.ret # None

\* C4: predict_delay_minutes returns a value >= 0 and never raises, for
\* every feature vector, with no artifact, with an artifact that predicts
\* (also a negative value) and with an artifact that raises.
C4_DelayNonNegative ==
    DelayDone => ~fcall.ret[1].exc /\ fcall.ret[1].val >= 0

\* a call with an artifact predicting -5 minutes has returned 0
C4_Witness ==
    /\ DelayDone
    /\ model = Some(ArtNegative)
    /\ fcall.args.distance_km = Some(1234)
    /\ fcall.ret[1] = Ret(0)

\* every row a request holds, has stored or has returned
RowsOf(r) ==
    { req[r].rows[i] : i \in 1..Len(req[r].rows) }
    \cup (IF req[r].resp = None THEN {}
          ELSE { req[r].resp[1].rows[i] : i \in 1..Len(req[r].resp[1].rows) })

StoredRows ==
    UNION { { searches[k].modes_json[i] : i \in 1..Len(searches[k].modes_json) }
            : k \in 1..Len(searches) }

\* C5: every ModeRow of every request (the Bus/Metro/Train rows of predict,
\* the Cab row of cab_predict, the Walk row of walk_predict) has
\* total_time_min >= 1.0.
C5_TotalTimeFloor ==
    \A row \in StoredRows \cup UNION { RowsOf(r) : r \in Reqs } :
        row.total_time_min >= 100

\* cab_predict has returned a Cab row for a route of 0 km and 0 minutes with
\* no predicted delay: the floor is what makes its total time 1.0
C5_Witness ==
    \E r \in Reqs :
        /\ req[r].pc = "done"
        /\ req[r].feature = "cab"
        /\ req[r].base_time_min = Some(0)
        /\ Len(req[r].resp[1].rows) = 1
        /\ req[r].resp[1].rows[1].predicted_delay = 0
        /\ req[r].resp[1].rows[1].total_time_min = 100

\* C6: once geocoding has failed for a request, the request only records
\* the attempt and returns the geocoding error: it never calls the router
\* or the delay predictor and builds no rows and no suggestions.
C6_GeoErrorIsTerminal ==
    \A r \in Reqs :
        req[r].geo_err # None =>
            /\ req[r].pc \in {"geo_failed", "done"}
            /\ req[r].calls.route = 0
            /\ req[r].calls.predictor = 0
            /\ req[r].rows = <<>>
            /\ req[r].pc = "done" =>
                   /\ req[r].resp[1].kind = "geo_error"
                   /\ req[r].resp[1].error = req[r].geo_err
                   /\ req[r].resp[1].rows = <<>>
                   /\ req[r].resp[1].suggestions = <<>>

\* predict has returned the "too far apart" error for Majestic -> Delhi
C6_Witness ==
    \E r \in Reqs :
        /\ req[r].pc = "done"
        /\ req[r].feature = "public"
        /\ req[r].destination = <<"Delhi">>
        /\ req[r].resp[1].kind = "geo_error"
        /\ req[r].resp[1].error = Some("too_far")
        /\ Len(searches) = 1

\* a predict request that has returned after geocoding both places but
\* getting no road route
NoRouteDone(r) ==
    /\ req[r].pc = "done"
    /\ req[r].feature = "public"
    /\ req[r].geo_err = None
    /\ req[r].src_ll # None
    /\ req[r].road_km = None

HasCab(list) == \E i \in 1..Len(list) : list[i].type = "Cab"

\* C7 as stated: without a road route predict returns no public rows, sets
\* no_modes_msg and nevertheless includes a Cab suggestion.
C7_Original ==
    \A r \in Reqs :
        NoRouteDone(r) =>
            /\ req[r].resp[1].rows = <<>>
            /\ req[r].resp[1].no_modes_msg # None
            /\ HasCab(req[r].resp[1].suggestions)

\* C7 as amended: without a road route predict returns no public rows and
\* sets no_modes_msg, and includes no Cab suggestion; the Cab suggestion is
\* forced on, whatever the distance and speed comparison, when a road route
\* exists and there are no public rows.
C7_NoRouteNoCab ==
    \A r \in Reqs :
        /\ NoRouteDone(r) =>
               /\ req[r].resp[1].kind = "advice"
               /\ req[r].resp[1].rows = <<>>
               /\ req[r].resp[1].no_modes_msg = Some("no_direct_pt")
               /\ ~HasCab(req[r].resp[1].suggestions)
        /\ (/\ req[r].pc = "done" /\ req[r].feature = "public"
            /\ req[r].road_km # None /\ req[r].resp[1].kind = "advice"
            /\ req[r].resp[1].rows = <<>>)
               => HasCab(req[r].resp[1].suggestions)

\* predict has returned for Mysuru -> Majestic (124 km apart, inside the
\* box) with an empty route list: no rows, the message, no Cab card
C7_Witness ==
    \E r \in Reqs :
        /\ NoRouteDone(r)
        /\ req[r].source = <<"Mysuru">>
        /\ req[r].route_resp # None
        /\ req[r].route_resp[1].kind = "empty"
        /\ req[r].straight_km > 12000
        /\ req[r].resp[1].rows = <<>>
        /\ req[r].resp[1].no_modes_msg # None
        /\ ~HasCab(req[r].resp[1].suggestions)

\* the artifact raises for this mode
ArtifactRaisesFor(mode) ==
    model # None /\ mode_code(mode) \in model[1].raises

\* C8: when the artifact raises during the prediction for a mode, that
\* row's delay is exactly the closed-form heuristic
\* distance * (traffic / 30) * (1 + min(rain, 20) / 50) * factor (rain is 0
\* in every request), and the request still returns one row per available
\* mode.
C8_FaultFallsBackToHeuristic ==
    \A r \in Reqs :
        (req[r].pc = "done" /\ req[r].feature = "public"
            /\ req[r].resp[1].kind # "geo_error"
            /\ req[r].resp[1].kind # "missing_input"
            /\ model # None /\ model[1].raises # {}) =>
            LET rows == req[r].resp[1].rows
            IN  /\ req[r].resp[1].kind = "advice"
                /\ Len(rows) = Len(req[r].modes)
                /\ \A i \in 1..Len(rows) :
                    /\ rows[i].mode = req[r].modes[i]
                    /\ ArtifactRaisesFor(rows[i].mode) =>
                         rows[i].predicted_delay =
                           RoundDiv(
                             RoundDiv(dist_for_mode(rows[i].mode,
                                                    req[r].road_km,
                                                    req[r].straight_km)
                                        * rows[i].traffic_index
                                        * mode_factor(rows[i].mode), 300),
                             10)

\* with the artifact that raises for Metro only, predict has returned a Bus
\* row with the artifact's delay and a Metro row with a non-zero heuristic
\* delay
C8_Witness ==
    \E r \in Reqs :
        /\ req[r].pc = "done"
        /\ model = Some(ArtMetroFault)
        /\ req[r].resp[1].kind = "advice"
        /\ Len(req[r].resp[1].rows) = 2
        /\ req[r].resp[1].rows[1].mode = "Bus"
        /\ req[r].resp[1].rows[2].mode = "Metro"
        /\ req[r].resp[1].rows[2].predicted_delay > 0

\* the request met a routing failure: no key, or a provider answer that is
\* not a route
RouteFailed(r) ==
    /\ req[r].calls.route > 0
    /\ \/ ~TOMTOM_KEY
       \/ req[r].route_resp # None /\ req[r].route_resp[1].kind # "ok"

\* C9: a routing failure of any kind comes back from tomtom_route as (no
\* route, error) and never as an exception; the request then runs on to a
\* normal result with road_km absent and distance_km equal to the
\* straight-line distance.  Only a geocoding error ends a request with an
\* error.
C9_RouteFailureDegrades ==
    \A r \in Reqs :
        /\ RouteFailed(r) =>
               /\ req[r].route_err # None
               /\ req[r].road_km = None
               /\ ~req[r].has_route
               /\ req[r].pc \in {"assemble", "save", "respond", "done"}
               /\ req[r].pc = "done" =>
                      /\ req[r].resp[1].kind = "advice"
                      /\ req[r].resp[1].distance_km =
                             geodesic(req[r].src_ll[1], req[r].dst_ll[1])
        /\ req[r].pc = "done" =>
               /\ req[r].resp[1].kind \in
                      {"advice", "geo_error", "missing_input"}
               /\ req[r].resp[1].kind = "geo_error" <=> req[r].geo_err # None
               /\ req[r].resp[1].kind = "missing_input" <=>
                      (req[r].source = <<>> \/ req[r].destination = <<>>)

\* predict has returned a result after a network failure of the router,
\* showing the straight-line distance
C9_Witness ==
    \E r \in Reqs :
        /\ req[r].pc = "done"
        /\ TOMTOM_KEY
        /\ req[r].feature = "public"
        /\ req[r].route_resp # None
        /\ req[r].route_resp[1].kind = "network"
        /\ req[r].resp[1].kind = "advice"
        /\ req[r].resp[1].distance_km = req[r].straight_km
        /\ req[r].straight_km > 0

\* what a request was given: its query, the providers' answers and the time
InputsOf(r) ==
    << req[r].feature, req[r].source, req[r].destination, req[r].osm,
       req[r].route_resp, req[r].now >>

\* C10: two requests with the same query, the same provider answers and the
\* same time of day return the same rows, suggestions, distance and
\* no_modes_msg, whatever other requests run before, between or interleaved
\* with them.
C10_SameInputsSameAdvice ==
    \A r1, r2 \in Reqs :
        (req[r1].pc = "done" /\ req[r2].pc = "done"
            /\ InputsOf(r1) = InputsOf(r2))
        => req[r1].resp = req[r2].resp

\* two requests with the same inputs have both returned rows, a third one
\* with another provider answer has returned none, and the attempt of the
\* third was recorded between those of the two
C10_Witness ==
    \E r1, r2, r3 \in Reqs :
        /\ r1 # r2
        /\ req[r1].pc = "done" /\ req[r2].pc = "done" /\ req[r3].pc = "done"
        /\ InputsOf(r1) = InputsOf(r2)
        /\ InputsOf(r3) # InputsOf(r1)
        /\ Len(req[r1].resp[1].rows) = 2
        /\ req[r1].resp = req[r2].resp
        /\ req[r3].resp[1].rows = <<>>
        /\ Len(searches) = 3
        /\ searches[1].req = r1 /\ searches[2].req = r3
        /\ searches[3].req = r2


\* the rows of the searches table written by the handler of request r
RecordsOf(r) == { k \in 1..Len(searches) : searches[k].req = r }

\* request r was a trip attempt (both places given) and has been answered
Answered(r) ==
    /\ req[r].pc = "done"
    /\ req[r].resp # None
    /\ req[r].resp[1].kind \in {"advice", "geo_error"}

\* C11: every trip attempt handled by predict, cab_predict or walk_predict
\* is in the search history exactly once by the time its response is
\* returned, with the feature tag of its endpoint; an attempt whose
\* geocoding failed is recorded with distance 0 and an empty mode list.
\* The handlers swallow a failed INSERT, so an answered attempt can be
\* missing from the history.
C11_RecordedExactlyOnce ==
    \A r \in Reqs :
        Answered(r) =>
            /\ Cardinality(RecordsOf(r)) = 1
            /\ \A k \in RecordsOf(r) :
                   /\ searches[k].feature = req[r].feature
                   /\ searches[k].source = req[r].source
                   /\ searches[k].destination = req[r].destination
                   /\ req[r].resp[1].kind = "geo_error" =>
                          /\ searches[k].road_km = 0
                          /\ searches[k].modes_json = <<>>

\* request r went through predict and was answered with advice
PublicAdvice(r) ==
    /\ req[r].feature = "public"
    /\ Answered(r)
    /\ req[r].resp[1].kind = "advice"

HasWalk(list) == \E i \in 1..Len(list) : list[i].type = "Walk"

\* C12: in predict a Walk suggestion is offered if and only if
\* path_km <= 2.5 or walk_time <= 0.8 * (the least total_time_min of the
\* public rows); without public rows only the distance clause can offer it.
\* The code compares against an infinite default when there are no rows, so
\* it offers Walk for every trip without public rows.
C12_WalkIff ==
    \A r \in Reqs :
        PublicAdvice(r) =>
            LET q        == req[r]
                path_km  == RoundDiv(q.straight_km * 135, 100)
                min_time == min_public_time(q.rows)
            IN  HasWalk(q.resp[1].suggestions) <=>
                    \/ path_km <= 250
                    \/ /\ q.rows # <<>>
                       /\ walk_time(path_km) * 10 <= min_time[1] * 8

\* cab_total of the Cab estimate predict makes for request r (a road route
\* is known)
CabTotalOf(r) ==
    CabEstimate(req[r].road_km[1], req[r].base_time_min, req[r].base_tr,
                get_live_weather(req[r].src_ll[1])).cab_total

\* C13: in predict, when a road route exists, a Cab suggestion is offered
\* if and only if (road_km <= 20 and cab_total < 0.85 * the least public
\* total_time_min) or there are no public rows; with public rows and either
\* road_km > 20 or cab_total >= 0.85 * that minimum there is no Cab
\* suggestion.
C13_CabIff ==
    \A r \in Reqs :
        (PublicAdvice(r) /\ req[r].road_km # None) =>
            LET q        == req[r]
                min_time == min_public_time(q.rows)
            IN  HasCab(q.resp[1].suggestions) <=>
                    \/ q.rows = <<>>
                    \/ /\ q.road_km[1] <= 2000
                       /\ CabTotalOf(r) * 100 < min_time[1] * 85

\* predict answered a routed trip of at most 20 km that has public rows,
\* the cab estimate is below 0.85 of the fastest of them, and the Cab card
\* is among the suggestions
C13_Witness ==
    \E r \in Reqs :
        /\ PublicAdvice(r)
        /\ req[r].road_km # None
        /\ req[r].rows # <<>>
        /\ req[r].road_km[1] <= 2000
        /\ CabTotalOf(r) * 100 < min_public_time(req[r].rows)[1] * 85
        /\ HasCab(req[r].resp[1].suggestions)

GeoDone == fcall.fn = "_geo_with_fallback" /\ fcall.ret # None

\* the tier strings of one place as the specification orders them:
\* city + region + country, region + country, country, raw text
TierStrings(text) ==
    << text \o <<", Bengaluru", ", Karnataka", ", India">>,
       text \o <<", Karnataka", ", India">>,
       text \o <<", India">>,
       text >>

\* C14: resolving one place queries the provider with the tier strings in
\* the order city+region+country, region+country, country, raw text, never
\* the same string twice, stops at the first tier that answers and returns
\* that answer; the fallback table, keyed by the trimmed lower-cased input,
\* is consulted only after all four tiers failed, and a place it does not
\* hold resolves to None.
C14_TierOrder ==
    GeoDone =>
        LET a     == fcall.args
            out   == fcall.ret[1]
            tiers == TierStrings(a.text)
            n     == Len(out.asked)
            key   == lower(strip(a.text))
            held  == { e \in FALLBACK_PLACES : e.key = key }
        IN  /\ n <= 4
            /\ \A i \in 1..n : out.asked[i] = tiers[i]
            /\ \A i, j \in 1..n : i # j => out.asked[i] # out.asked[j]
            /\ \A i \in 1..(n - 1) :
                   _osm_try(out.asked[i], a.prox, a.world) = None
            /\ ~out.table =>
                   /\ n >= 1
                   /\ out.res # None
                   /\ out.res = _osm_try(tiers[n], a.prox, a.world)
            /\ out.table =>
                   /\ n = 4
                   /\ _osm_try(tiers[4], a.prox, a.world) = None
                   /\ held = {} => out.res = None
                   /\ held # {} => \E e \in held : out.res = Some(e.ll)

\* "Gandhi Nagar" is known to the provider under the first and under the
\* second tier string: the call asked the first tier only and returned the
\* place in Bengaluru
C14_Witness ==
    /\ GeoDone
    /\ fcall.args.text = <<"Gandhi Nagar">>
    /\ fcall.args.prox = None
    /\ fcall.args.world = "up"
    /\ Len(fcall.ret[1].asked) = 1
    /\ fcall.ret[1].res = Some(LL(129770, 775790))

\* geocode_pair returned a pair of coordinates to the handler of request r
PairReturned(r) ==
    /\ req[r].pc \notin {"idle", "geocode"}
    /\ req[r].geo_err = None
    /\ req[r].src_ll # None
    /\ req[r].dst_ll # None

\* C15: when the first-pass endpoints are more than 120 km apart, each place
\* is resolved again with the other's first-pass coordinate as proximity,
\* and a place whose biased provider attempt fails on every tier keeps
\* exactly its first-pass coordinate in the returned pair.
\* The second pass goes through _geo_with_fallback, so after the biased
\* provider attempt fails the fallback table is consulted, and its
\* coordinate replaces the first-pass one.
C15_KeepsFirstPass ==
    \A r \in Reqs :
        PairReturned(r) =>
            LET q  == req[r]
                s  == _geo_with_fallback(q.source, None, q.osm)
                d  == _geo_with_fallback(q.destination, None, q.osm)
                s2 == _geo_strong_karnataka(q.source, d.res, q.osm)
                d2 == _geo_strong_karnataka(q.destination, s.res, q.osm)
            IN  geodesic(s.res[1], d.res[1]) > 12000 =>
                    /\ s2.res = None => q.src_ll = s.res
                    /\ d2.res = None => q.dst_ll = d.res

\* predict has built the rows of request r
RowsBuilt(r) ==
    /\ req[r].feature = "public"
    /\ \/ req[r].pc \in {"save", "respond"}
       \/ PublicAdvice(r)

\* seq lists some of Bus, Metro, Train, in that order, each at most once
InModeOrder(seq) ==
    LET rank(m) == CASE m = "Bus" -> 1 [] m = "Metro" -> 2
                     [] m = "Train" -> 3 [] OTHER -> 0
    IN  /\ \A i \in 1..Len(seq) : rank(seq[i]) > 0
        /\ \A i, j \in 1..Len(seq) : i < j => rank(seq[i]) < rank(seq[j])

\* C16: predict's rows hold exactly one row per mode returned by
\* available_public_modes, in the same order (Bus, Metro, Train, without
\* duplicates): the "skip Bus without a route" branch of the loop never
\* drops an offered mode, whatever the route outcome and the endpoints.
C16_OneRowPerMode ==
    \A r \in Reqs :
        RowsBuilt(r) =>
            LET q     == req[r]
                modes == available_public_modes(q.road_km, q.has_route,
                                                q.src_ll[1], q.dst_ll[1])
            IN  /\ q.modes = modes
                /\ InModeOrder(modes)
                /\ Len(q.rows) = Len(modes)
                /\ \A i \in 1..Len(modes) : q.rows[i].mode = modes[i]
                /\ PublicAdvice(r) => q.resp[1].rows = q.rows

\* predict answered a routed trip for which Bus and Metro are available,
\* with a Bus row followed by a Metro row
C16_Witness ==
    \E r \in Reqs :
        /\ PublicAdvice(r)
        /\ req[r].has_route
        /\ req[r].modes = <<"Bus", "Metro">>
        /\ Len(req[r].resp[1].rows) = 2
        /\ req[r].resp[1].rows[1].mode = "Bus"
        /\ req[r].resp[1].rows[2].mode = "Metro"

TrafficDone == fcall.fn = "base_traffic_index" /\ fcall.ret # None

\* C17: base_traffic_index returns 40.0 exactly for the local times from
\* 08:00 to 11:00 and from 17:00 to 20:00, bounds included, and 28.0 for
\* every other time of day, such as 11:30 and 20:30.
\* The code compares the whole hour only (8 <= hour <= 11), so it returns
\* 40.0 until 11:59 and until 20:59.
C17_PeakWindows ==
    TrafficDone =>
        LET when == fcall.args.when
            peak == \/ (8 * 60 <= when /\ when <= 11 * 60)
                    \/ (17 * 60 <= when /\ when <= 20 * 60)
        IN  /\ peak => fcall.ret[1] = 400
            /\ ~peak => fcall.ret[1] = 280

\* the positions of the Bus rows among rows
BusRows(rows) == { i \in 1..Len(rows) : rows[i].mode = "Bus" }

\* C18: with the heuristic predictor (no artifact loaded), whenever predict's
\* rows hold a Bus row no Cab suggestion is offered: the Cab estimate is
\* made from the same router duration, road distance, traffic index and
\* mode factor as the Bus row, so cab_total equals the Bus total_time_min
\* and is never below 0.85 of the least public time.
C18_NoCabBesideBus ==
    \A r \in Reqs :
        (PublicAdvice(r) /\ model = None) =>
            \A i \in BusRows(req[r].resp[1].rows) :
                /\ ~HasCab(req[r].resp[1].suggestions)
                /\ CabTotalOf(r) = req[r].resp[1].rows[i].total_time_min
                /\ CabTotalOf(r) * 100 >=
                       min_public_time(req[r].resp[1].rows)[1] * 85

\* predict, with no artifact, answered a routed trip of at most 20 km whose
\* only public row is the Bus row: no Cab card although the cab is near
C18_Witness ==
    \E r \in Reqs :
        /\ PublicAdvice(r)
        /\ model = None
        /\ req[r].road_km # None
        /\ req[r].road_km[1] <= 2000
        /\ Len(req[r].resp[1].rows) = 1
        /\ BusRows(req[r].resp[1].rows) = {1}
        /\ ~HasCab(req[r].resp[1].suggestions)

====
